---- MODULE Spec2Model ----
(***************************************************************************)
(* State-machine model of src/WeaviateSearchApp.js: the React component    *)
(* WeaviateSearchApp with its two asynchronous handlers handleFileUpload   *)
(* and performSearch, the tab buttons, the search input and the delayed    *)
(* tab switch.                                                             *)
(*                                                                         *)
(* JavaScript strings are sequences of one-character strings, so that      *)
(* toLowerCase, trim, includes and endsWith are computed character by      *)
(* character.  JavaScript values carry a type tag t, because the code's    *)
(* behaviour depends on the dynamic type (hasOwnProperty on null throws,   *)
(* toLowerCase on a number throws).                                        *)
(***************************************************************************)
EXTENDS Integers, Sequences, FiniteSets, TLC

VARIABLES
    activeTab,          \* useState('upload')
    products,           \* useState([])  : the loaded catalog
    searchQuery,        \* useState('')
    searchResults,      \* useState([])
    isLoading,          \* useState(false)
    uploadStatus,       \* useState({ type: '', message: '' })
    connectionStatus,   \* useState('disconnected')
    reads,              \* handleFileUpload invocations suspended at await file.text()
    timers,             \* pending setTimeout callbacks, in scheduling order
    nextId,             \* history: ticket given to the next started upload/search
    last,               \* history: the handler step taken last
    lastOkUpload,       \* history: the upload that stored its catalog last
    newestOkUpload,     \* history: the latest-started upload among those that stored a catalog
    lastDoneSearch      \* history: the search that completed last

appVars == <<activeTab, products, searchQuery, searchResults, isLoading,
             uploadStatus, connectionStatus>>
vars == <<activeTab, products, searchQuery, searchResults, isLoading,
          uploadStatus, connectionStatus, reads, timers,
          nextId, last, lastOkUpload, newestOkUpload, lastDoneSearch>>

(***************************************************************************)
(* Bounds                                                                  *)
(***************************************************************************)
\* uploads plus searches that get past their early returns in one behaviour
\* of Spec, which draws its files from all of Files
MaxOps == 2
\* the same count for SpecRace, which draws its files from RaceFileIds
MaxRaceOps == 3
\* uploads and searches started in a behaviour of SpecFair
MaxFairOps == 2
\* uploads and searches started in a behaviour of SpecStale
MaxStaleOps == 3

(***************************************************************************)
(* Program constants                                                       *)
(***************************************************************************)
MaxResults == 5
SearchDelay == 1000
TabSwitchDelay == 1500
\* scores and distances are kept in hundredths: 0.95 is 95, 0.1 is 10, 0.05 is 5
ScoreBase == 95
ScoreStep == 10
DistanceBase == 10
DistanceStep == 5

SearchTabs == {"hybrid", "keyword", "vector", "rag"}
Tabs == {"upload"} \cup SearchTabs
RequiredFields == {"product_id", "name", "description", "category", "price", "brand", "tags"}

(***************************************************************************)
(* JavaScript values                                                       *)
(***************************************************************************)
Str(s) == [t |-> "string", v |-> s]
Num(n) == [t |-> "number", v |-> n]
Arr(a) == [t |-> "array", v |-> a]
Obj(o) == [t |-> "object", v |-> o]
Null == [t |-> "null"]
Undefined == [t |-> "undefined"]

(***************************************************************************)
(* String primitives                                                       *)
(***************************************************************************)
LowerChar(c) ==
    CASE c = "A" -> "a"
      [] c = "B" -> "b"
      [] c = "C" -> "c"
      [] c = "E" -> "e"
      [] OTHER -> c

ToLowerCase(s) == [i \in 1..Len(s) |-> LowerChar(s[i])]

Includes(s, q) ==
    \E i \in 0..(Len(s) - Len(q)) : SubSeq(s, i + 1, i + Len(q)) = q

EndsWith(s, suffix) ==
    /\ Len(s) >= Len(suffix)
    /\ SubSeq(s, Len(s) - Len(suffix) + 1, Len(s)) = suffix

IsWhitespace(c) == c \in {" ", "\t", "\n"}

RECURSIVE TrimStart(_)
TrimStart(s) ==
    IF s # <<>> /\ IsWhitespace(Head(s)) THEN TrimStart(Tail(s)) ELSE s

RECURSIVE TrimEnd(_)
TrimEnd(s) ==
    IF s # <<>> /\ IsWhitespace(s[Len(s)]) THEN TrimEnd(SubSeq(s, 1, Len(s) - 1)) ELSE s

Trim(s) == TrimEnd(TrimStart(s))

RECURSIVE Join(_, _)
Join(strs, sep) ==
    IF strs = <<>> THEN <<>>
    ELSE IF Len(strs) = 1 THEN strs[1]
    ELSE strs[1] \o sep \o Join(Tail(strs), sep)

(***************************************************************************)
(* Inputs: product records, uploadable files, query texts                  *)
(***************************************************************************)
\* a record with all seven required fields, all of the documented types; the
\* fields whose values the code never inspects (product_id, price, brand) hold
\* opaque values
Product(id, name, description, tags) ==
    Obj([product_id |-> id, name |-> Str(name), description |-> Str(description),
         category |-> Str(<<"E", "l">>), price |-> 199, brand |-> "B",
         tags |-> Arr(tags)])

\* matches the query "A " by its description only
ProdDesc(id) == Product(id, <<"A", "b">>, <<"b", "A", " ">>, <<>>)
\* matches the query "A " by its second tag only
ProdTag(id) == Product(id, <<"c">>, <<"C">>, <<Str(<<"x">>), Str(<<"A", " ">>)>>)
\* contains "a" in every text field but never "a "
ProdNone(id) == Product(id, <<"a">>, <<"A">>, <<Str(<<"a">>)>>)
\* all required fields are own properties, but name is a number
ProdNumName(id) ==
    Obj([product_id |-> id, name |-> Num(42), description |-> Str(<<"a", " ">>),
         category |-> Str(<<"E">>), price |-> 1, brand |-> "B",
         tags |-> Arr(<<>>)])
\* all required fields are own properties, the name contains "A " and the
\* description is a number
ProdNumDesc(id) ==
    Obj([product_id |-> id, name |-> Str(<<"A", " ">>), description |-> Num(7),
         category |-> Str(<<"E">>), price |-> 1, brand |-> "B",
         tags |-> Arr(<<>>)])
\* no category, no price, no brand, no tags
ProdMissing(id) ==
    Obj([product_id |-> id, name |-> Str(<<"a">>), description |-> Str(<<"a">>)])

\* the text of a file, given by whether it is a JSON document and by the
\* value it then denotes
WellFormed(value) == [wellFormed |-> TRUE, value |-> value]
Malformed == [wellFormed |-> FALSE]

DotJson == <<".", "j", "s", "o", "n">>

Files == <<
    [name |-> <<"e">> \o DotJson,
     text |-> WellFormed(Arr(<<ProdNone("0"), ProdDesc("1"), ProdTag("2"), ProdDesc("3"),
                               ProdTag("4"), ProdDesc("5"), ProdTag("6")>>))],
    [name |-> <<"b">> \o DotJson,
     text |-> WellFormed(ProdNumName("9"))],
    [name |-> <<"c">> \o DotJson,
     text |-> WellFormed(Arr(<<ProdDesc("1"), ProdMissing("2"), ProdTag("3")>>))],
    [name |-> <<"d">> \o DotJson,
     text |-> Malformed],
    [name |-> <<"g">> \o DotJson,
     text |-> WellFormed(Arr(<<>>))],
    [name |-> <<"d", "a", "t", "a", ".", "c", "s", "v">>,
     text |-> WellFormed(Arr(<<ProdDesc("1")>>))],
    [name |-> <<"h">> \o DotJson,
     text |-> WellFormed(Arr(<<ProdNumDesc("7")>>))]
>>

FileIds == 1..6

\* the two files that load a catalog and the file with the wrong extension
RaceFileIds == {1, 2, 6}

\* what the user types into the search input: a blank text and a text with
\* an upper-case letter and a trailing blank
Queries == {<<" ">>, <<"A", " ">>}

\* one file for each way an upload or a later search can fail, and the file
\* with one record that the query "A " finds
FairFileIds == {2, 3, 4, 6, 7}

\* the file with the wrong extension and the file whose record has a number
\* as description
StaleFileIds == {6, 7}

\* a text the name of that record contains and a text it does not contain
StaleQueries == {<<"A", " ">>, <<"b">>}

(***************************************************************************)
(* handleFileUpload: the pure part                                         *)
(***************************************************************************)
\* JSON.parse(text): the decoded value, or a SyntaxError
JSONparse(text) ==
    IF text.wellFormed
    THEN [ok |-> TRUE, value |-> text.value]
    ELSE [ok |-> FALSE, message |-> "Unexpected token"]

\* product.hasOwnProperty(field) for a product that is not null
HasOwnProperty(product, field) ==
    product.t = "object" /\ field \in DOMAIN product.v

validateProductStructure(product) ==
    \A field \in RequiredFields : HasOwnProperty(product, field)

\* variant: the decoded value is wrapped even when it is an array
ProductsArrayAlwaysWrap(jsonData) == <<jsonData>>

\* Array.isArray(jsonData) ? jsonData : [jsonData]
ProductsArray(jsonData) ==
    IF jsonData.t = "array" THEN jsonData.v ELSE <<jsonData>>

\* variant: only the first element is validated
InvalidProductsFirstOnly(productsArray) ==
    SelectSeq(SubSeq(productsArray, 1, 1), LAMBDA product : ~validateProductStructure(product))

InvalidProducts(productsArray) ==
    SelectSeq(productsArray, LAMBDA product : ~validateProductStructure(product))

\* the try block of handleFileUpload after the await: the catalog to store,
\* or the message of the exception thrown
\* variant: an empty array is refused
UploadOutcomeRejectEmpty(text) ==
    LET parsed == JSONparse(text) IN
    IF ~parsed.ok
    THEN [ok |-> FALSE, message |-> <<parsed.message>>]
    ELSE LET productsArray == ProductsArray(parsed.value) IN
         IF \E i \in 1..Len(productsArray) : productsArray[i].t = "null"
         THEN [ok |-> FALSE, message |-> <<"Cannot read properties of null (reading 'hasOwnProperty')">>]
         ELSE IF Len(InvalidProducts(productsArray)) > 0 \/ Len(productsArray) = 0
         THEN [ok |-> FALSE,
               message |-> <<"Invalid product structure found. Missing required fields in ",
                             ToString(Len(InvalidProducts(productsArray))), " products.">>]
         ELSE [ok |-> TRUE, productsArray |-> productsArray]

UploadOutcome(text) ==
    LET parsed == JSONparse(text) IN
    IF ~parsed.ok
    THEN [ok |-> FALSE, message |-> <<parsed.message>>]
    ELSE LET productsArray == ProductsArray(parsed.value) IN
         IF \E i \in 1..Len(productsArray) : productsArray[i].t = "null"
         THEN [ok |-> FALSE, message |-> <<"Cannot read properties of null (reading 'hasOwnProperty')">>]
         ELSE IF Len(InvalidProducts(productsArray)) > 0
         THEN [ok |-> FALSE,
               message |-> <<"Invalid product structure found. Missing required fields in ",
                             ToString(Len(InvalidProducts(productsArray))), " products.">>]
         ELSE [ok |-> TRUE, productsArray |-> productsArray]

NoStatus == [type |-> "", message |-> <<>>]
ErrorStatus(message) == [type |-> "error", message |-> message]
SuccessStatus(message) == [type |-> "success", message |-> message]

(***************************************************************************)
(* performSearch: the pure part                                            *)
(***************************************************************************)
\* value.toLowerCase().includes(q), q being searchQuery.toLowerCase(); a value
\* that is not a string has no toLowerCase method and the call throws a
\* TypeError
FieldIncludes(value, q) ==
    IF value.t # "string" THEN "throw"
    ELSE IF Includes(ToLowerCase(value.v), q) THEN "true"
    ELSE "false"

\* tags.some(tag => tag.toLowerCase().includes(q)) over the elements from
\* position i on: stops at the first tag that matches
RECURSIVE SomeTag(_, _, _)
SomeTag(tags, i, q) ==
    IF i > Len(tags) THEN "false"
    ELSE LET r == FieldIncludes(tags[i], q) IN
         IF r = "false" THEN SomeTag(tags, i + 1, q) ELSE r

TagsInclude(tags, q) ==
    IF tags.t # "array" THEN "throw" ELSE SomeTag(tags.v, 1, q)

\* variant: the query is compared as entered, without toLowerCase
MatchesQueryCaseSensitive(product, query) ==
    LET n == FieldIncludes(product.v.name, query)
        d == FieldIncludes(product.v.description, query)
    IN  IF n # "false" THEN n
        ELSE IF d # "false" THEN d
        ELSE TagsInclude(product.v.tags, query)

\* the filter callback: name || description || tags, evaluated left to right
MatchesQuery(product, query) ==
    LET q == ToLowerCase(query)
        n == FieldIncludes(product.v.name, q)
        d == FieldIncludes(product.v.description, q)
    IN  IF n # "false" THEN n
        ELSE IF d # "false" THEN d
        ELSE TagsInclude(product.v.tags, q)

\* products.filter(...).slice(0, 5); the filter visits every product
MockResults(catalog, query) ==
    LET verdict == [i \in 1..Len(catalog) |-> MatchesQuery(catalog[i], query)]
        kept == SelectSeq([i \in 1..Len(catalog) |-> i], LAMBDA i : verdict[i] = "true")
        n == IF Len(kept) < MaxResults THEN Len(kept) ELSE MaxResults
    IN  IF \E i \in 1..Len(catalog) : verdict[i] = "throw"
        THEN [ok |-> FALSE, message |-> <<"toLowerCase is not a function">>]
        ELSE [ok |-> TRUE, results |-> [k \in 1..n |-> catalog[kept[k]]]]

\* String(value) as Array.prototype.join applies it to an element
JoinText(value) ==
    CASE value.t = "string" -> value.v
      [] value.t = "number" -> <<ToString(value.v)>>
      [] OTHER -> <<>>

\* variant: the template interpolates the lowercased query of the filter
GeneratedLowerQuery(product, query) ==
    <<"This ">> \o product.v.name.v \o <<" would be perfect for ">> \o ToLowerCase(query)
    \o <<" because of its ">>
    \o Join([i \in 1..Len(product.v.tags.v) |-> JoinText(product.v.tags.v[i])], <<",", " ">>)
    \o <<" features and ">> \o ToLowerCase(product.v.category.v) \o <<" design.">>

\* the template literal of the rag branch
Generated(product, query) ==
    <<"This ">> \o product.v.name.v \o <<" would be perfect for ">> \o query
    \o <<" because of its ">>
    \o Join([i \in 1..Len(product.v.tags.v) |-> JoinText(product.v.tags.v[i])], <<",", " ">>)
    \o <<" features and ">> \o ToLowerCase(product.v.category.v) \o <<" design.">>

\* variant: the position is counted from 1
MetadataOneBased(product, index, searchType, query) ==
    [score |-> IF searchType = "keyword" THEN Num(ScoreBase - (index + 1) * ScoreStep) ELSE Undefined,
     distance |-> IF searchType = "vector" THEN Num(DistanceBase + (index + 1) * DistanceStep) ELSE Undefined,
     generated |-> IF searchType = "rag" THEN Str(Generated(product, query)) ELSE Undefined]

\* the _metadata literal; index is the 0-based index of Array.prototype.map
Metadata(product, index, searchType, query) ==
    [score |-> IF searchType = "keyword" THEN Num(ScoreBase - index * ScoreStep) ELSE Undefined,
     distance |-> IF searchType = "vector" THEN Num(DistanceBase + index * DistanceStep) ELSE Undefined,
     generated |-> IF searchType = "rag" THEN Str(Generated(product, query)) ELSE Undefined]

\* { ...product, _metadata: {...} }
WithMetadata(product, metadata) ==
    Obj([field \in DOMAIN product.v \cup {"_metadata"} |->
            IF field = "_metadata" THEN Obj(metadata) ELSE product.v[field]])

\* evaluating the rag template throws when tags has no join method or
\* category has no toLowerCase method
DecorationThrows(product, searchType) ==
    /\ searchType = "rag"
    /\ \/ product.v.tags.t # "array"
       \/ product.v.category.t # "string"

\* resultsWithMetadata, given the outcome of the filter
Decorated(mock, query, searchType) ==
    IF ~mock.ok THEN mock
    ELSE IF \E i \in 1..Len(mock.results) : DecorationThrows(mock.results[i], searchType)
    THEN [ok |-> FALSE, message |-> <<"join is not a function">>]
    ELSE [ok |-> TRUE,
          results |-> [i \in 1..Len(mock.results) |->
                          WithMetadata(mock.results[i],
                                       Metadata(mock.results[i], i - 1, searchType, query))]]

\* the try block of performSearch after the await: mockResults is computed
\* once and then decorated
SearchOutcome(catalog, query, searchType) ==
    CHOOSE outcome \in {Decorated(mock, query, searchType) :
                            mock \in {MockResults(catalog, query)}} : TRUE

(***************************************************************************)
(* State machine                                                           *)
(***************************************************************************)
Step(op, id, f) == [op |-> op, id |-> id, f |-> f]

Init ==
    /\ activeTab = "upload"
    /\ products = <<>>
    /\ searchQuery = <<>>
    /\ searchResults = <<>>
    /\ isLoading = FALSE
    /\ uploadStatus = NoStatus
    /\ connectionStatus = "disconnected"
    /\ reads = {}
    /\ timers = <<>>
    /\ nextId = 1
    /\ last = Step("init", 0, 0)
    /\ lastOkUpload = [id |-> 0, f |-> 0]
    /\ newestOkUpload = [id |-> 0, f |-> 0]
    /\ lastDoneSearch = [id |-> 0, ov |-> FALSE]

RemoveAt(seq, i) == SubSeq(seq, 1, i - 1) \o SubSeq(seq, i + 1, Len(seq))

\* variant: pending timers fire in any order
CanFireAny(i) == TRUE

\* a timer fires once no timer scheduled before it with an equal or shorter
\* delay is still pending
CanFire(i) == \A j \in 1..(i - 1) : timers[j].delay > timers[i].delay

\* TabButton onClick={setActiveTab}
SetActiveTab(tab) ==
    /\ tab # activeTab
    /\ activeTab' = tab
    /\ last' = Step("ui", 0, 0)
    /\ UNCHANGED <<products, searchQuery, searchResults, isLoading, uploadStatus,
                   connectionStatus, reads, timers, nextId,
                   lastOkUpload, newestOkUpload, lastDoneSearch>>

\* search input onChange; the input is rendered on the four search tabs only
SetSearchQuery(q) ==
    /\ activeTab \in SearchTabs
    /\ q # searchQuery
    /\ searchQuery' = q
    /\ last' = Step("ui", 0, 0)
    /\ UNCHANGED <<activeTab, products, searchResults, isLoading, uploadStatus,
                   connectionStatus, reads, timers, nextId,
                   lastOkUpload, newestOkUpload, lastDoneSearch>>

\* the file input is rendered on the upload tab and is opened by the
\* Select JSON File button, which is disabled while isLoading
FileDialogEnabled == activeTab = "upload" /\ ~isLoading

\* handleFileUpload, change event without a file: if (!file) return
UploadNoFile ==
    /\ FileDialogEnabled
    /\ last' = Step("handleFileUpload", 0, 0)
    /\ UNCHANGED <<activeTab, products, searchQuery, searchResults, isLoading, uploadStatus,
                   connectionStatus, reads, timers, nextId,
                   lastOkUpload, newestOkUpload, lastDoneSearch>>

\* variant: the file name is checked after setIsLoading(true)
UploadRejectAfterLoading(f) ==
    /\ FileDialogEnabled
    /\ ~EndsWith(Files[f].name, DotJson)
    /\ isLoading' = TRUE
    /\ uploadStatus' = ErrorStatus(<<"Please upload a JSON file">>)
    /\ last' = Step("handleFileUpload", 0, f)
    /\ UNCHANGED <<activeTab, products, searchQuery, searchResults,
                   connectionStatus, reads, timers, nextId,
                   lastOkUpload, newestOkUpload, lastDoneSearch>>

\* handleFileUpload, file name check failed
UploadReject(f) ==
    /\ FileDialogEnabled
    /\ ~EndsWith(Files[f].name, DotJson)
    /\ uploadStatus' = ErrorStatus(<<"Please upload a JSON file">>)
    /\ last' = Step("handleFileUpload", 0, f)
    /\ UNCHANGED <<activeTab, products, searchQuery, searchResults, isLoading,
                   connectionStatus, reads, timers, nextId,
                   lastOkUpload, newestOkUpload, lastDoneSearch>>

\* handleFileUpload up to its suspension at await file.text()
UploadBegin(f, maxOps) ==
    /\ FileDialogEnabled
    /\ EndsWith(Files[f].name, DotJson)
    /\ nextId <= maxOps
    /\ isLoading' = TRUE
    /\ uploadStatus' = NoStatus
    /\ reads' = reads \cup {[id |-> nextId, f |-> f]}
    /\ nextId' = nextId + 1
    /\ last' = Step("handleFileUpload", nextId, f)
    /\ UNCHANGED <<activeTab, products, searchQuery, searchResults, connectionStatus,
                   timers, lastOkUpload, newestOkUpload, lastDoneSearch>>

\* variant: an upload that is not the latest-started one keeps the catalog
UploadResumeLatestOnly(r) ==
    LET outcome == UploadOutcome(Files[r.f].text) IN
    /\ r \in reads
    /\ reads' = reads \ {r}
    /\ IF outcome.ok
       THEN /\ products' = IF r.id < newestOkUpload.id THEN products ELSE outcome.productsArray
            /\ uploadStatus' = SuccessStatus(<<"Successfully loaded ",
                                               ToString(Len(outcome.productsArray)),
                                               " products">>)
            /\ timers' = Append(timers, [kind |-> "tab", delay |-> TabSwitchDelay, id |-> r.id])
            /\ lastOkUpload' = r
            /\ newestOkUpload' = IF r.id > newestOkUpload.id THEN r ELSE newestOkUpload
       ELSE /\ uploadStatus' = ErrorStatus(<<"Error parsing JSON: ">> \o outcome.message)
            /\ UNCHANGED <<products, timers, lastOkUpload, newestOkUpload>>
    /\ isLoading' = FALSE
    /\ last' = Step("uploadResume", r.id, r.f)
    /\ UNCHANGED <<activeTab, searchQuery, searchResults, connectionStatus, nextId,
                   lastDoneSearch>>

\* variant: a successful upload also empties the displayed result set
UploadResumeClearingResults(r) ==
    LET outcome == UploadOutcome(Files[r.f].text) IN
    /\ r \in reads
    /\ reads' = reads \ {r}
    /\ IF outcome.ok
       THEN /\ products' = outcome.productsArray
            /\ searchResults' = <<>>
            /\ uploadStatus' = SuccessStatus(<<"Successfully loaded ",
                                               ToString(Len(outcome.productsArray)),
                                               " products">>)
            /\ timers' = Append(timers, [kind |-> "tab", delay |-> TabSwitchDelay, id |-> r.id])
            /\ lastOkUpload' = r
            /\ newestOkUpload' = IF r.id > newestOkUpload.id THEN r ELSE newestOkUpload
       ELSE /\ uploadStatus' = ErrorStatus(<<"Error parsing JSON: ">> \o outcome.message)
            /\ UNCHANGED <<products, timers, lastOkUpload, newestOkUpload, searchResults>>
    /\ isLoading' = FALSE
    /\ last' = Step("uploadResume", r.id, r.f)
    /\ UNCHANGED <<activeTab, searchQuery, connectionStatus, nextId,
                   lastDoneSearch>>

\* variant: a successful upload also marks the connection as established
UploadResumeConnecting(r) ==
    LET outcome == UploadOutcome(Files[r.f].text) IN
    /\ r \in reads
    /\ reads' = reads \ {r}
    /\ IF outcome.ok
       THEN /\ products' = outcome.productsArray
            /\ connectionStatus' = "connected"
            /\ uploadStatus' = SuccessStatus(<<"Successfully loaded ",
                                               ToString(Len(outcome.productsArray)),
                                               " products">>)
            /\ timers' = Append(timers, [kind |-> "tab", delay |-> TabSwitchDelay, id |-> r.id])
            /\ lastOkUpload' = r
            /\ newestOkUpload' = IF r.id > newestOkUpload.id THEN r ELSE newestOkUpload
       ELSE /\ uploadStatus' = ErrorStatus(<<"Error parsing JSON: ">> \o outcome.message)
            /\ UNCHANGED <<products, timers, lastOkUpload, newestOkUpload, connectionStatus>>
    /\ isLoading' = FALSE
    /\ last' = Step("uploadResume", r.id, r.f)
    /\ UNCHANGED <<activeTab, searchQuery, searchResults, nextId,
                   lastDoneSearch>>

\* handleFileUpload from the completion of file.text() to its end
UploadResume(r) ==
    LET outcome == UploadOutcome(Files[r.f].text) IN
    /\ r \in reads
    /\ reads' = reads \ {r}
    /\ IF outcome.ok
       THEN /\ products' = outcome.productsArray
            /\ uploadStatus' = SuccessStatus(<<"Successfully loaded ",
                                               ToString(Len(outcome.productsArray)),
                                               " products">>)
            /\ timers' = Append(timers, [kind |-> "tab", delay |-> TabSwitchDelay, id |-> r.id])
            /\ lastOkUpload' = r
            /\ newestOkUpload' = IF r.id > newestOkUpload.id THEN r ELSE newestOkUpload
       ELSE /\ uploadStatus' = ErrorStatus(<<"Error parsing JSON: ">> \o outcome.message)
            /\ UNCHANGED <<products, timers, lastOkUpload, newestOkUpload>>
    /\ isLoading' = FALSE
    /\ last' = Step("uploadResume", r.id, r.f)
    /\ UNCHANGED <<activeTab, searchQuery, searchResults, connectionStatus, nextId,
                   lastDoneSearch>>

\* variant: the callback leaves the tab alone once the user has left the
\* upload tab
TabSwitchIfOnUpload(i) ==
    /\ i \in 1..Len(timers)
    /\ timers[i].kind = "tab"
    /\ CanFire(i)
    /\ activeTab' = IF activeTab = "upload" THEN "hybrid" ELSE activeTab
    /\ timers' = RemoveAt(timers, i)
    /\ last' = Step("tabSwitch", timers[i].id, 0)
    /\ UNCHANGED <<products, searchQuery, searchResults, isLoading, uploadStatus,
                   connectionStatus, reads, nextId, lastOkUpload, newestOkUpload, lastDoneSearch>>

\* the callback of setTimeout(() => setActiveTab('hybrid'), 1500)
TabSwitch(i) ==
    /\ i \in 1..Len(timers)
    /\ timers[i].kind = "tab"
    /\ CanFire(i)
    /\ activeTab' = "hybrid"
    /\ timers' = RemoveAt(timers, i)
    /\ last' = Step("tabSwitch", timers[i].id, 0)
    /\ UNCHANGED <<products, searchQuery, searchResults, isLoading, uploadStatus,
                   connectionStatus, reads, nextId, lastOkUpload, newestOkUpload, lastDoneSearch>>

\* variant: the early return tests searchQuery without trim()
PerformSearchNoTrim(searchType, maxOps) ==
    IF searchQuery = <<>>
    THEN /\ last' = Step("performSearch", 0, 0)
         /\ UNCHANGED <<activeTab, products, searchQuery, searchResults, isLoading,
                        uploadStatus, connectionStatus, reads, timers, nextId,
                        lastOkUpload, newestOkUpload, lastDoneSearch>>
    ELSE /\ nextId <= maxOps
         /\ isLoading' = TRUE
         /\ searchResults' = <<>>
         /\ timers' = Append(timers,
                [kind |-> "search", delay |-> SearchDelay, id |-> nextId,
                 searchType |-> searchType, query |-> searchQuery, catalog |-> products,
                 ov |-> \E j \in 1..Len(timers) : timers[j].kind = "search"])
         /\ nextId' = nextId + 1
         /\ last' = Step("performSearch", nextId, 0)
         /\ UNCHANGED <<activeTab, products, searchQuery, uploadStatus, connectionStatus,
                        reads, lastOkUpload, newestOkUpload, lastDoneSearch>>

\* performSearch up to its suspension at the simulated delay; the closure
\* keeps the searchQuery and products of the render that created it
PerformSearch(searchType, maxOps) ==
    IF Trim(searchQuery) = <<>>
    THEN /\ last' = Step("performSearch", 0, 0)
         /\ UNCHANGED <<activeTab, products, searchQuery, searchResults, isLoading,
                        uploadStatus, connectionStatus, reads, timers, nextId,
                        lastOkUpload, newestOkUpload, lastDoneSearch>>
    ELSE /\ nextId <= maxOps
         /\ isLoading' = TRUE
         /\ searchResults' = <<>>
         /\ timers' = Append(timers,
                [kind |-> "search", delay |-> SearchDelay, id |-> nextId,
                 searchType |-> searchType, query |-> searchQuery, catalog |-> products,
                 ov |-> \E j \in 1..Len(timers) : timers[j].kind = "search"])
         /\ nextId' = nextId + 1
         /\ last' = Step("performSearch", nextId, 0)
         /\ UNCHANGED <<activeTab, products, searchQuery, uploadStatus, connectionStatus,
                        reads, lastOkUpload, newestOkUpload, lastDoneSearch>>

\* search input onKeyPress: Enter calls performSearch(activeTab)
PressEnter(maxOps) ==
    /\ activeTab \in SearchTabs
    /\ PerformSearch(activeTab, maxOps)

\* Search button onClick, disabled while loading, for a blank query and for
\* an empty catalog
ClickSearch(maxOps) ==
    /\ activeTab \in SearchTabs
    /\ ~(isLoading \/ Trim(searchQuery) = <<>> \/ Len(products) = 0)
    /\ PerformSearch(activeTab, maxOps)

\* variant: setIsLoading(false) is the last statement of the try block
\* instead of the finally block
SearchResumeNoFinally(i) ==
    /\ i \in 1..Len(timers)
    /\ timers[i].kind = "search"
    /\ CanFire(i)
    /\ \E t \in {timers[i]} :
       \E outcome \in {SearchOutcome(t.catalog, t.query, t.searchType)} :
           /\ last' = Step("searchResume", t.id, 0)
           /\ lastDoneSearch' = [id |-> t.id, ov |-> t.ov]
           /\ IF outcome.ok
              THEN /\ searchResults' = outcome.results
                   /\ connectionStatus' = "connected"
                   /\ isLoading' = FALSE
                   /\ UNCHANGED uploadStatus
              ELSE /\ uploadStatus' = ErrorStatus(<<"Search error: ">> \o outcome.message)
                   /\ connectionStatus' = "error"
                   /\ UNCHANGED <<searchResults, isLoading>>
    /\ timers' = RemoveAt(timers, i)
    /\ UNCHANGED <<activeTab, products, searchQuery, reads, nextId, lastOkUpload, newestOkUpload>>

\* variant: the filter reads the query and the catalog of the latest render
SearchResumeCurrentState(i) ==
    /\ i \in 1..Len(timers)
    /\ timers[i].kind = "search"
    /\ CanFire(i)
    /\ \E t \in {timers[i]} :
       \E outcome \in {SearchOutcome(products, searchQuery, t.searchType)} :
           /\ last' = Step("searchResume", t.id, 0)
           /\ lastDoneSearch' = [id |-> t.id, ov |-> t.ov]
           /\ IF outcome.ok
              THEN /\ searchResults' = outcome.results
                   /\ connectionStatus' = "connected"
                   /\ UNCHANGED uploadStatus
              ELSE /\ uploadStatus' = ErrorStatus(<<"Search error: ">> \o outcome.message)
                   /\ connectionStatus' = "error"
                   /\ UNCHANGED searchResults
    /\ isLoading' = FALSE
    /\ timers' = RemoveAt(timers, i)
    /\ UNCHANGED <<activeTab, products, searchQuery, reads, nextId, lastOkUpload, newestOkUpload>>

\* performSearch from the end of the simulated delay to its end
SearchResume(i) ==
    /\ i \in 1..Len(timers)
    /\ timers[i].kind = "search"
    /\ CanFire(i)
    /\ \E t \in {timers[i]} :
       \E outcome \in {SearchOutcome(t.catalog, t.query, t.searchType)} :
           /\ last' = Step("searchResume", t.id, 0)
           /\ lastDoneSearch' = [id |-> t.id, ov |-> t.ov]
           /\ IF outcome.ok
              THEN /\ searchResults' = outcome.results
                   /\ connectionStatus' = "connected"
                   /\ UNCHANGED uploadStatus
              ELSE /\ uploadStatus' = ErrorStatus(<<"Search error: ">> \o outcome.message)
                   /\ connectionStatus' = "error"
                   /\ UNCHANGED searchResults
    /\ isLoading' = FALSE
    /\ timers' = RemoveAt(timers, i)
    /\ UNCHANGED <<activeTab, products, searchQuery, reads, nextId, lastOkUpload, newestOkUpload>>

\* the steps of the application when the user picks files among fileIds and
\* starts at most maxOps uploads and searches
NextOver(fileIds, maxOps) ==
    \/ \E tab \in Tabs : SetActiveTab(tab)
    \/ \E q \in Queries : SetSearchQuery(q)
    \/ UploadNoFile
    \/ \E f \in fileIds : UploadReject(f)
    \/ \E f \in fileIds : UploadBegin(f, maxOps)
    \/ \E r \in reads : UploadResume(r)
    \/ \E i \in 1..Len(timers) : TabSwitch(i)
    \/ PressEnter(maxOps)
    \/ ClickSearch(maxOps)
    \/ \E i \in 1..Len(timers) : SearchResume(i)

Next == NextOver(FileIds, MaxOps)

Spec == Init /\ [][Next]_vars

NextRace == NextOver(RaceFileIds, MaxRaceOps)

SpecRace == Init /\ [][NextRace]_vars

\* the promise of file.text() settles and a timer that was set fires: no
\* suspended handler waits forever
Fairness ==
    /\ WF_vars(\E r \in reads : UploadResume(r))
    /\ WF_vars(\E i \in 1..Len(timers) : SearchResume(i))
    /\ WF_vars(\E i \in 1..Len(timers) : TabSwitch(i))

\* the steps of the application when the user picks files among FairFileIds
NextFair == NextOver(FairFileIds, MaxFairOps)

SpecFair == Init /\ [][NextFair]_vars /\ Fairness

\* the steps of the application when the user picks files among StaleFileIds,
\* types texts among StaleQueries and starts at most MaxStaleOps uploads and
\* searches
NextStale ==
    \/ \E tab \in Tabs : SetActiveTab(tab)
    \/ \E q \in StaleQueries : SetSearchQuery(q)
    \/ UploadNoFile
    \/ \E f \in StaleFileIds : UploadReject(f)
    \/ \E f \in StaleFileIds : UploadBegin(f, MaxStaleOps)
    \/ \E r \in reads : UploadResume(r)
    \/ \E i \in 1..Len(timers) : TabSwitch(i)
    \/ PressEnter(MaxStaleOps)
    \/ ClickSearch(MaxStaleOps)
    \/ \E i \in 1..Len(timers) : SearchResume(i)

SpecStale == Init /\ [][NextStale]_vars

(***************************************************************************)
(* Vocabulary of the properties.  These definitions restate the wording of *)
(* the properties on the inputs; they do not use the operators of the      *)
(* handlers above.                                                         *)
(***************************************************************************)
\* the text of the file a step of handleFileUpload worked on
TextOf(step) == Files[step.f].text

\* the decoded value as a sequence: a single value is a one-element sequence
AsSequence(value) == IF value.t = "array" THEN value.v ELSE <<value>>

LacksRequiredField(element) ==
    \/ element.t # "object"
    \/ \E field \in {"product_id", "name", "description", "category", "price", "brand", "tags"} :
          field \notin DOMAIN element.v

\* the content fails to parse or has an element without a required field
RejectedContent(text) ==
    \/ ~text.wellFormed
    \/ \E i \in 1..Len(AsSequence(text.value)) : LacksRequiredField(AsSequence(text.value)[i])

NameEndsInDotJson(name) ==
    /\ Len(name) >= 5
    /\ name[Len(name) - 4] = "."
    /\ name[Len(name) - 3] = "j"
    /\ name[Len(name) - 2] = "s"
    /\ name[Len(name) - 1] = "o"
    /\ name[Len(name)] = "n"

BlankQuery(query) == \A i \in 1..Len(query) : query[i] \in {" ", "\t", "\n"}

\* the pending search whose ticket is id
SearchOf(id) ==
    timers[CHOOSE i \in 1..Len(timers) : timers[i].kind = "search" /\ timers[i].id = id]

Lowered(text) ==
    [i \in 1..Len(text) |->
        CASE text[i] = "A" -> "a" [] text[i] = "B" -> "b" [] text[i] = "C" -> "c"
          [] text[i] = "E" -> "e" [] OTHER -> text[i]]

IsSubstring(q, text) ==
    \E k \in 1..(Len(text) + 1) :
        /\ k + Len(q) - 1 <= Len(text)
        /\ \A j \in 1..Len(q) : text[k + j - 1] = q[j]

\* the match predicate: the lowercased query is a substring of the lowercased
\* name, or of the lowercased description, or of at least one lowercased tag
MatchPredicate(product, query) ==
    \/ /\ product.v.name.t = "string"
       /\ IsSubstring(Lowered(query), Lowered(product.v.name.v))
    \/ /\ product.v.description.t = "string"
       /\ IsSubstring(Lowered(query), Lowered(product.v.description.v))
    \/ /\ product.v.tags.t = "array"
       /\ \E k \in 1..Len(product.v.tags.v) :
             /\ product.v.tags.v[k].t = "string"
             /\ IsSubstring(Lowered(query), Lowered(product.v.tags.v[k].v))

\* the positions of the catalog that satisfy the match predicate
MatchPositions(catalog, query) ==
    {i \in 1..Len(catalog) : MatchPredicate(catalog[i], query)}

\* the k-th smallest of a set of positions
Kth(positions, k) ==
    CHOOSE i \in positions : Cardinality({j \in positions : j <= i}) = k

\* a search result without its _metadata attachment
WithoutMetadata(result) ==
    Obj([field \in DOMAIN result.v \ {"_metadata"} |-> result.v[field]])

\* the metadata fields of a result that are populated
Populated(result) ==
    {field \in {"score", "distance", "generated"} : result.v["_metadata"].v[field].t # "undefined"}

\* every text field of every record has the documented type
AllText(catalog) ==
    \A i \in 1..Len(catalog) :
        /\ catalog[i].v.name.t = "string"
        /\ catalog[i].v.description.t = "string"
        /\ catalog[i].v.category.t = "string"
        /\ catalog[i].v.tags.t = "array"
        /\ \A k \in 1..Len(catalog[i].v.tags.v) : catalog[i].v.tags.v[k].t = "string"

\* evaluating the match predicate on the record calls toLowerCase on a value
\* that is not text: the name, or the description once the name does not
\* contain the query
ThrowingRecord(product, query) ==
    \/ product.v.name.t # "string"
    \/ /\ ~IsSubstring(Lowered(query), Lowered(product.v.name.v))
       /\ product.v.description.t # "string"

\* no upload is suspended at its file read and no search at its delay
Idle ==
    /\ reads = {}
    /\ \A i \in 1..Len(timers) : timers[i].kind # "search"

\* the delayed tab switch of the upload with ticket id is scheduled in queue
TabPendingIn(queue, id) ==
    \E i \in 1..Len(queue) : queue[i].kind = "tab" /\ queue[i].id = id

TabPending(id) == TabPendingIn(timers, id)

\* the number of scheduled tab switches
TabTimers(queue) == Cardinality({i \in 1..Len(queue) : queue[i].kind = "tab"})

\* the record is one of the records of the catalog
InCatalog(record, catalog) == \E j \in 1..Len(catalog) : catalog[j] = record

(***************************************************************************)
(* Properties                                                              *)
(***************************************************************************)
\* C1: an upload whose content fails to parse, or in which at least one
\* element lacks a required field, is rejected as a whole: the step of
\* handleFileUpload that follows the file read leaves the loaded catalog
\* exactly as it was and sets an error status.
C1_UploadAllOrNothing ==
    [][(last'.op = "uploadResume" /\ RejectedContent(TextOf(last')))
          => (products' = products /\ uploadStatus'.type = "error")]_vars

\* a rejected upload that had valid elements beside an invalid one has
\* completed while a catalog was loaded
C1_Witness ==
    /\ last.op = "uploadResume"
    /\ TextOf(last).wellFormed
    /\ \E i \in 1..Len(AsSequence(TextOf(last).value)) :
          ~LacksRequiredField(AsSequence(TextOf(last).value)[i])
    /\ \E i \in 1..Len(AsSequence(TextOf(last).value)) :
          LacksRequiredField(AsSequence(TextOf(last).value)[i])
    /\ uploadStatus.type = "error"
    /\ Len(products) > 0

\* C2: an upload whose content parses and whose elements all have the
\* required fields succeeds, and the loaded catalog is then exactly the
\* uploaded value as a sequence: a single object gives a one-element catalog,
\* a sequence is stored unchanged, nothing of the previous catalog is kept.
C2_CatalogReplaced ==
    [][(last'.op = "uploadResume" /\ ~RejectedContent(TextOf(last')))
          => /\ uploadStatus'.type = "success"
             /\ IF TextOf(last').value.t = "array"
                THEN products' = TextOf(last').value.v
                ELSE Len(products') = 1 /\ products'[1] = TextOf(last').value]_vars

\* a single-object upload has replaced a catalog of several records, whose
\* search results are still displayed
C2_Witness ==
    /\ last.op = "uploadResume"
    /\ TextOf(last).wellFormed
    /\ TextOf(last).value.t = "object"
    /\ products = <<TextOf(last).value>>
    /\ Len(searchResults) > 1

\* C3: the result set a search publishes is exactly the first 5 (or fewer)
\* records of its catalog, in catalog order, that satisfy the match
\* predicate; a catalog whose text fields are all strings always gets its
\* result set published.
C3_FirstFiveMatches ==
    [][last'.op = "searchResume"
          => \A search \in {SearchOf(last'.id)} :
             \A positions \in {MatchPositions(search.catalog, search.query)} :
             \A n \in {IF Cardinality(positions) < 5 THEN Cardinality(positions) ELSE 5} :
                 /\ AllText(search.catalog) => connectionStatus' = "connected"
                 /\ connectionStatus' = "connected"
                       => /\ Len(searchResults') = n
                          /\ \A k \in 1..n :
                                WithoutMetadata(searchResults'[k])
                                   = search.catalog[Kth(positions, k)]]_vars

\* a search over a catalog with a non-matching first record and more than 5
\* matching records has published 5 results
C3_Witness ==
    /\ last.op = "searchResume"
    /\ Len(searchResults) = 5
    /\ searchResults[1].v.product_id = "1"
    /\ searchResults[5].v.product_id = "5"

\* C4: every displayed search result has exactly one of the metadata fields
\* score, distance, generated populated.
C4_ExactlyOneMetadata ==
    \A i \in 1..Len(searchResults) : Cardinality(Populated(searchResults[i])) = 1

\* C5: a file whose name does not end in ".json" is rejected before its
\* content is read: the status becomes an error and nothing else changes, in
\* particular no file read is started.
C5_WrongExtensionRejected ==
    [][(last'.op = "handleFileUpload" /\ last'.f # 0
          /\ ~NameEndsInDotJson(Files[last'.f].name))
          => /\ uploadStatus'.type = "error"
             /\ UNCHANGED <<products, searchResults, isLoading, activeTab, connectionStatus,
                            searchQuery, reads, timers>>]_vars

\* a file with another extension and valid content has been rejected while
\* a catalog was loaded
C5_Witness ==
    /\ last.op = "handleFileUpload"
    /\ last.f # 0
    /\ ~NameEndsInDotJson(Files[last.f].name)
    /\ ~RejectedContent(TextOf(last))
    /\ uploadStatus.type = "error"
    /\ Len(products) > 0

\* C6: a search with a non-blank query over an empty catalog is a no-op: when
\* it completes it leaves the status, the connection status, the catalog and
\* the active tab as they were, and the result set unchanged or empty.
C6_EmptyCatalogSearchNoOp ==
    [][(last'.op = "searchResume" /\ Len(SearchOf(last'.id).catalog) = 0)
          => /\ UNCHANGED <<uploadStatus, connectionStatus, products, activeTab>>
             /\ (searchResults' = searchResults \/ searchResults' = <<>>)]_vars

\* C7: performSearch with a query that is empty after trimming whitespace
\* returns without changing any state and without scheduling anything.
C7_BlankQueryNoOp ==
    [][(last'.op = "performSearch" /\ BlankQuery(searchQuery))
          => UNCHANGED <<activeTab, products, searchQuery, searchResults, isLoading,
                         uploadStatus, connectionStatus, reads, timers, nextId>>]_vars

\* performSearch has returned early for a query made of whitespace only
C7_Witness ==
    /\ last.op = "performSearch"
    /\ last.id = 0
    /\ Len(searchQuery) > 0
    /\ BlankQuery(searchQuery)

\* C8: the status is reset to the neutral empty status as soon as an upload
\* or a search starts.
C8_StatusClearedAtStart ==
    [][((last'.op = "handleFileUpload" \/ last'.op = "performSearch") /\ last'.id # 0)
          => uploadStatus' = [type |-> "", message |-> <<>>]]_vars

\* C9: the last write wins: the loaded catalog is the content of the upload
\* whose file read completed last among the successful ones, whenever that
\* upload was started.
C9_LastWriteWins ==
    lastOkUpload.id # 0
       => products = AsSequence(Files[lastOkUpload.f].text.value)

\* a stale upload has overwritten the different catalog of an upload that was
\* started after it and had completed before it
C9_Witness ==
    /\ last.op = "uploadResume"
    /\ last.id = lastOkUpload.id
    /\ lastOkUpload.id < newestOkUpload.id
    /\ AsSequence(Files[lastOkUpload.f].text.value)
          # AsSequence(Files[newestOkUpload.f].text.value)
    /\ products = AsSequence(Files[lastOkUpload.f].text.value)

\* C10 as amended: searches complete in the order in which they were started;
\* every search still in flight was started after the search that completed
\* last.
C10_SearchesCompleteInOrder ==
    \A i \in 1..Len(timers) :
        timers[i].kind = "search" => timers[i].id > lastDoneSearch.id

\* a search that was started while an earlier one was in flight has
\* completed and its results are displayed
C10_Witness ==
    /\ last.op = "searchResume"
    /\ last.id = lastDoneSearch.id
    /\ lastDoneSearch.ov
    /\ connectionStatus = "connected"

\* C10 as stated: of two overlapping searches the later-started one can
\* complete first, leaving the earlier one to complete after it.
C10_LaterSearchCanCompleteFirst ==
    \A i \in 1..Len(timers) :
        timers[i].kind = "search" => ENABLED SearchResume(i)

\* C11: a search that raises an exception ends with an error status whose
\* message identifies a search error, the connection status 'error', an
\* empty result set, the loading flag reset, and is not scheduled again.
C11_SearchExceptionCaught ==
    [][(last'.op = "searchResume"
          /\ \E i \in 1..Len(SearchOf(last'.id).catalog) :
                ThrowingRecord(SearchOf(last'.id).catalog[i], SearchOf(last'.id).query))
          => /\ uploadStatus'.type = "error"
             /\ uploadStatus'.message[1] = "Search error: "
             /\ connectionStatus' = "error"
             /\ searchResults' = <<>>
             /\ ~isLoading'
             /\ Len(timers') = Len(timers) - 1
             /\ \A i \in 1..Len(timers') : timers'[i].id # last'.id]_vars

\* C12: in hundredths, the result at 0-based position i has score 95 - 10*i
\* in keyword mode and distance 10 + 5*i in vector mode: scores strictly
\* decrease and distances strictly increase with the position, the first
\* result has score 95 or distance 10, and both stay strictly positive.
C12_ScoreAndDistance ==
    [][(last'.op = "searchResume" /\ connectionStatus' = "connected")
          => \A k \in 1..Len(searchResults') :
                LET mode == SearchOf(last'.id).searchType
                    md == searchResults'[k].v["_metadata"].v
                    before == searchResults'[IF k > 1 THEN k - 1 ELSE 1].v["_metadata"].v
                IN  /\ mode = "keyword"
                          => /\ md.score.t = "number"
                             /\ md.score.v = 95 - 10 * (k - 1)
                             /\ md.score.v > 0
                             /\ k = 1 => md.score.v = 95
                             /\ k > 1 => md.score.v < before.score.v
                    /\ mode = "vector"
                          => /\ md.distance.t = "number"
                             /\ md.distance.v = 10 + 5 * (k - 1)
                             /\ md.distance.v > 0
                             /\ k = 1 => md.distance.v = 10
                             /\ k > 1 => md.distance.v > before.distance.v]_vars

\* a keyword search has published five results, the last one with score 0.55
C12_Witness ==
    /\ last.op = "searchResume"
    /\ Len(searchResults) = 5
    /\ searchResults[1].v["_metadata"].v.score = [t |-> "number", v |-> 95]
    /\ searchResults[5].v["_metadata"].v.score = [t |-> "number", v |-> 55]

\* C13: every upload and every search terminates, whether it succeeds or
\* fails, and once no operation is in flight the loading flag is false, so
\* that the controls it disables are available again.
C13_OperationsTerminate ==
    /\ [](Idle => ~isLoading)
    /\ ~Idle ~> Idle

\* after an upload was rejected, a search has been started and has completed
\* normally, and nothing is in flight
C13_Witness ==
    /\ last.op = "searchResume"
    /\ uploadStatus.type = "error"
    /\ connectionStatus = "connected"
    /\ Len(searchResults) > 0
    /\ Idle
    /\ ~isLoading

\* C14: every successful upload schedules a switch to the hybrid tab, which
\* eventually happens and makes hybrid the active tab whatever tab the user
\* selected meanwhile; nothing but a successful upload schedules a switch.
C14_TabSwitchAfterSuccess ==
    /\ [][(last'.op = "uploadResume" /\ ~RejectedContent(TextOf(last')))
             => TabPendingIn(timers', last'.id)]_vars
    /\ [][TabTimers(timers') > TabTimers(timers)
             => (last'.op = "uploadResume" /\ ~RejectedContent(TextOf(last')))]_vars
    /\ [][last'.op = "tabSwitch" => activeTab' = "hybrid"]_vars
    /\ \A id \in 1..MaxFairOps :
          TabPending(id) ~> (last = [op |-> "tabSwitch", id |-> id, f |-> 0])

\* after an upload has succeeded and before its delayed switch, the user has
\* just selected a search tab other than hybrid
C14_Witness ==
    /\ \E id \in 1..MaxFairOps : TabPending(id)
    /\ uploadStatus.type = "success"
    /\ last.op = "ui"
    /\ searchQuery = <<>>
    /\ activeTab \in {"keyword", "vector", "rag"}

\* C15: in rag mode the generated text of every published result contains,
\* as contiguous texts, the query exactly as it was entered and the name of
\* the product the result is made from.
C15_GeneratedContainsQueryAndName ==
    [][(last'.op = "searchResume" /\ connectionStatus' = "connected"
          /\ SearchOf(last'.id).searchType = "rag")
          => \A k \in 1..Len(searchResults') :
                LET generated == searchResults'[k].v["_metadata"].v.generated IN
                /\ generated.t = "string"
                /\ IsSubstring(SearchOf(last'.id).query, generated.v)
                /\ IsSubstring(searchResults'[k].v.name.v, generated.v)]_vars

\* a rag search with the query "A " has published results, the first one for
\* a product that has no tag
C15_Witness ==
    /\ last.op = "searchResume"
    /\ Len(searchResults) > 1
    /\ searchResults[1].v["_metadata"].v.generated.t = "string"
    /\ searchResults[1].v.tags.v = <<>>
    /\ IsSubstring(<<"A", " ">>, searchResults[1].v["_metadata"].v.generated.v)

\* C16: whenever an upload is suspended at its file read or a search at its
\* delay, the loading flag is true.
C16_LoadingWhileInFlight == ~Idle => isLoading

\* C17 as stated: each record of the displayed result set is, ignoring its
\* metadata, a record of the currently loaded catalog.
C17_ResultsFromCurrentCatalog ==
    \A k \in 1..Len(searchResults) :
        InCatalog(WithoutMetadata(searchResults[k]), products)

\* C17 as amended: only searches change the displayed result set; a search
\* empties it when it starts and, when it completes, publishes records of
\* the catalog that was loaded when it started; every other step, uploads
\* included, leaves the displayed result set as it is.
C17_ResultsFromSearchCatalog ==
    /\ [][last'.op = "searchResume"
             => \/ searchResults' = searchResults
                \/ \A k \in 1..Len(searchResults') :
                      InCatalog(WithoutMetadata(searchResults'[k]), SearchOf(last'.id).catalog)]_vars
    /\ [][last'.op = "performSearch"
             => (searchResults' = searchResults \/ searchResults' = <<>>)]_vars
    /\ [][(last'.op # "searchResume" /\ last'.op # "performSearch")
             => searchResults' = searchResults]_vars

\* an upload has replaced the catalog while results were displayed, and a
\* displayed result is not a record of the new catalog
C17_Witness ==
    /\ last.op = "uploadResume"
    /\ last.id = lastOkUpload.id
    /\ Len(products) > 0
    /\ \E k \in 1..Len(searchResults) :
          ~InCatalog(WithoutMetadata(searchResults[k]), products)

\* C18: a search that completes after the query was edited or the catalog
\* was replaced publishes the first five matches of the catalog it was
\* started with, for the query it was started with; in rag mode the
\* generated text quotes that query.
C18_SearchUsesStartSnapshot ==
    [][last'.op = "searchResume"
          => \A search \in {SearchOf(last'.id)} :
                (/\ searchQuery # search.query \/ products # search.catalog
                 /\ AllText(search.catalog))
                => \A positions \in {MatchPositions(search.catalog, search.query)} :
                      \A n \in {IF Cardinality(positions) < 5 THEN Cardinality(positions) ELSE 5} :
                         /\ Len(searchResults') = n
                         /\ \A k \in 1..n :
                               /\ WithoutMetadata(searchResults'[k])
                                     = search.catalog[Kth(positions, k)]
                               /\ search.searchType = "rag"
                                     => IsSubstring(search.query,
                                                    searchResults'[k].v["_metadata"].v.generated.v)]_vars

\* a search has published results although the query is now blank and the
\* catalog no longer holds one of the published records
C18_Witness ==
    /\ last.op = "searchResume"
    /\ last.id = lastDoneSearch.id
    /\ BlankQuery(searchQuery)
    /\ Len(searchResults) > 0
    /\ ~InCatalog(WithoutMetadata(searchResults[1]), products)

\* C19: no step of a search changes the loaded catalog or the active tab, and
\* no step of an upload, its delayed tab switch included, changes the
\* displayed result set or the connection status.
C19_DisjointWrites ==
    [][/\ (last'.op = "performSearch" \/ last'.op = "searchResume")
             => (products' = products /\ activeTab' = activeTab)
       /\ (last'.op = "handleFileUpload" \/ last'.op = "uploadResume" \/ last'.op = "tabSwitch")
             => (searchResults' = searchResults /\ connectionStatus' = connectionStatus)]_vars

\* a file has been refused while the results of a completed search were
\* displayed
C19_Witness ==
    /\ last.op = "handleFileUpload"
    /\ last.f # 0
    /\ uploadStatus.type = "error"
    /\ connectionStatus = "connected"
    /\ Len(searchResults) > 0

\* C20: an upload whose content is the empty sequence succeeds: the status
\* reports 0 products loaded, the catalog becomes empty and the switch to the
\* hybrid tab is scheduled.
C20_EmptyUploadAccepted ==
    [][(/\ last'.op = "uploadResume"
        /\ TextOf(last').wellFormed
        /\ TextOf(last').value = [t |-> "array", v |-> <<>>])
          => /\ uploadStatus'
                   = [type |-> "success", message |-> <<"Successfully loaded ", "0", " products">>]
             /\ products' = <<>>
             /\ TabTimers(timers') = TabTimers(timers) + 1
             /\ TabPendingIn(timers', last'.id)]_vars

\* the empty sequence has been uploaded after an earlier successful upload
\* whose tab switch is still scheduled
C20_Witness ==
    /\ last.op = "uploadResume"
    /\ TextOf(last).wellFormed
    /\ TextOf(last).value = [t |-> "array", v |-> <<>>]
    /\ products = <<>>
    /\ uploadStatus.type = "success"
    /\ TabPending(last.id)
    /\ \E i \in 1..Len(timers) : timers[i].kind = "tab" /\ timers[i].id < last.id

====
